---- MODULE Spec2Model ----
(***************************************************************************)
(* XHRLoader (PreloadJS) and its base class AbstractLoader as a state      *)
(* machine.  The loader object, the browser's pending timers and the       *)
(* placeholder tag are the state; the public operations load() and         *)
(* cancel(), every transport event, the manual timer and the tag's onload  *)
(* signal are the actions.  Handlers are written as functions on a record  *)
(* of the mutable fields so that a handler's calls (_clean, _sendError,    *)
(* ...) compose exactly as in the source.                                  *)
(***************************************************************************)
EXTENDS Integers, FiniteSets, Sequences, TLC

\* ---------------------------------------------------------------- bounds
MaxLoads  == 2      \* calls of load() on one loader
MaxEvents == 2      \* environment events beyond the ones the transport owes
MaxBytes  == 2      \* loaded / total of a transport progress event

\* ------------------------------------------------------- program constants
DONE == 4                             \* readyState of a finished request
NOTFOUND == 404                       \* status: Not Found
NOTLOADED == 0                        \* status: Not Loaded

IMAGE == "image"
JAVASCRIPT == "javascript"
CSS == "css"
XML == "xml"
SVG == "svg"
JSON == "json"
TEXT == "text"
BINARY == "binary"
Types == {IMAGE, JAVASCRIPT, CSS, XML, SVG, JSON, TEXT, BINARY}

\* ------------------------------------------------------------ value domain
Null == [kind |-> "null", body |-> ""]
Throws == [kind |-> "throws", body |-> ""]      \* a field whose read throws
Data(p) == [kind |-> "data", body |-> p]
Payloads == {"[1]", "{not valid json"}
Statuses == {0, 200, 404, 500}
ReadyStates == {3, 4}
NoStatus == 0 - 1
NoTimer == 0

\* what the transport exposes when a completion signal fires
\* (a request that failed carries no body; a field _getResponse does not
\* reach, behind one that already gave the payload, is left null)
XHRs == {x \in [status : Statuses,
                response : {Null, Data("{not valid json")},
                responseText : {Null, Throws, Data("[1]")},
                responseXML : {Null, Data("{not valid json")}] :
            /\ x.status \in {NOTFOUND, NOTLOADED} =>
                /\ x.response = Null
                /\ x.responseText = Null
                /\ x.responseXML = Null
            /\ x.response # Null =>
                /\ x.responseText = Null
                /\ x.responseXML = Null
            /\ x.responseText.kind = "data" => x.responseXML = Null}

VARIABLES
    request,      \* _request: "null" when no transport could be created
    xhrLevel,     \* _xhrLevel
    itemType,     \* _item.type
    canceled,     \* AbstractLoader.canceled
    loaded,       \* AbstractLoader.loaded
    progress,     \* AbstractLoader.progress, a fraction <<num, den>>
    response,     \* _response
    rawResponse,  \* _rawResponse
    hooks,        \* the handler properties of _request that are non-null
    loadTimeout,  \* _loadTimeout: id of the last manual timer, NoTimer if none
    timers,       \* ids of the timers pending in the browser
    tagOnload,    \* _item.tag.onload is bound to _handleTagReady
    sent,         \* terminal notifications delivered to the caller, per kind
    out,          \* the notification delivered to the caller in the last step
    thrown,       \* the last operation ended in an uncaught exception
    released,     \* _clean cleared the hooks of the request in the last step
    loadCalls,    \* number of load() calls so far
    events,       \* environment events delivered so far (capped)
    due,          \* the transport still owes a terminal event
    tagDue,       \* the placeholder tag still owes its onload
    firstStatus,  \* status seen by the first honored completion signal
    payload,      \* what _getResponse returned to the honored completion
    fired,        \* the progress event _handleProgress received in the last step
    op            \* the operation or handler of the last step, "ignored" if none

vars == <<request, xhrLevel, itemType, canceled, loaded, progress, response,
          rawResponse, hooks, loadTimeout, timers, tagOnload, sent, out,
          thrown, released, loadCalls, events, due, tagDue, firstStatus,
          payload, fired, op>>

\* a notification as the caller receives it; loaded and total are those of a
\* progress event and None otherwise
None == 0 - 1
Notification(type, l, t) == [type |-> type, loaded |-> l, total |-> t]
Silent == Notification("none", None, None)
NoEvent == [loaded |-> None, total |-> None]

\* the mutable fields the handlers work on, as one record
Self == [canceled |-> canceled, loaded |-> loaded, progress |-> progress,
         response |-> response, rawResponse |-> rawResponse, hooks |-> hooks,
         loadTimeout |-> loadTimeout, timers |-> timers,
         tagOnload |-> tagOnload, sent |-> sent, out |-> Silent,
         thrown |-> FALSE, released |-> FALSE]

Becomes(s) ==
    /\ canceled' = s.canceled
    /\ loaded' = s.loaded
    /\ progress' = s.progress
    /\ response' = s.response
    /\ rawResponse' = s.rawResponse
    /\ hooks' = s.hooks
    /\ loadTimeout' = s.loadTimeout
    /\ timers' = s.timers
    /\ tagOnload' = s.tagOnload
    /\ sent' = s.sent
    /\ out' = s.out
    /\ thrown' = s.thrown
    /\ released' = s.released

\* ------------------------------------------------------------ AbstractLoader
\* window.createjs exists for the whole run: the library is never unloaded
\* while the loader is in use, so only the canceled flag decides.
_isCanceled_never(s) == FALSE

_isCanceled(s) == s.canceled

_sendLoadStart(s) ==
    IF _isCanceled(s) THEN s
    ELSE [s EXCEPT !.out = Notification("loadStart", None, None)]

RECURSIVE Gcd(_, _)
Gcd(a, b) == IF b = 0 THEN a ELSE Gcd(b, a % b)

\* value.loaded / value.total as a reduced fraction; NaN (0/0) and Infinity
\* (x/0) are replaced by 0
Quotient(l, t) ==
    IF t = 0 THEN <<0, 1>>
    ELSE <<l \div Gcd(l, t), t \div Gcd(l, t)>>

\* an event object is never "instanceof Number": the else branch is taken
_sendProgress(s, value) ==
    IF _isCanceled(s) THEN s
    ELSE [s EXCEPT !.progress = Quotient(value.loaded, value.total),
                   !.out = Notification("progress", value.loaded, value.total)]

_sendComplete(s) ==
    IF _isCanceled(s) THEN s
    ELSE [s EXCEPT !.sent.complete = @ + 1,
                   !.out = Notification("complete", None, None)]

_sendError(s) ==
    IF _isCanceled(s) THEN s
    ELSE [s EXCEPT !.sent.error = @ + 1,
                   !.out = Notification("error", None, None)]

\* ----------------------------------------------------------------- XHRLoader
clearTimeout(s, id) == [s EXCEPT !.timers = @ \ {id}]

_clean_keepsProgress(s) ==
    LET a == clearTimeout(s, s.loadTimeout)
    IN  IF request = "null" THEN [a EXCEPT !.thrown = TRUE]
        ELSE [a EXCEPT !.hooks = @ \cap {"onprogress"}, !.released = TRUE]

\* clearTimeout runs first; "req.onloadstart = null" on a null request is a
\* TypeError that leaves the method.  _checkLoadInterval is never set, so
\* clearInterval has nothing to clear.
_clean(s) ==
    LET a == clearTimeout(s, s.loadTimeout)
    IN  IF request = "null" THEN [a EXCEPT !.thrown = TRUE]
        ELSE [a EXCEPT !.hooks = {}, !.released = TRUE]

_handleProgress_forwardAll(s, event) ==
    _sendProgress(s, [loaded |-> event.loaded, total |-> event.total])

_handleProgress(s, event) ==
    IF event.loaded > 0 /\ event.total = 0 THEN s
    ELSE _sendProgress(s, [loaded |-> event.loaded, total |-> event.total])

_handleLoadStart_keepsTimer(s) == _sendLoadStart(s)

_handleLoadStart(s) == _sendLoadStart(clearTimeout(s, s.loadTimeout))

_handleAbort(s) ==
    LET a == _clean(s) IN IF a.thrown THEN a ELSE _sendError(a)

_handleError(s) ==
    LET a == _clean(s) IN IF a.thrown THEN a ELSE _sendError(a)

_handleTimeout(s) ==
    LET a == _clean(s) IN IF a.thrown THEN a ELSE _sendError(a)

_checkError_only0(status) == IF status = NOTLOADED THEN FALSE ELSE TRUE

_checkError_inverted(status) ==
    IF status = NOTFOUND \/ status = NOTLOADED THEN TRUE ELSE FALSE

_checkError_also500(status) ==
    IF status = NOTFOUND \/ status = NOTLOADED \/ status = 500 THEN FALSE
    ELSE TRUE

\* parseInt of a numeric status is the status; FALSE means "has an error"
_checkError(status) ==
    IF status = NOTFOUND \/ status = NOTLOADED THEN FALSE ELSE TRUE

\* a read that throws is caught and the next field is tried
_getResponse(s, xhr) ==
    IF s.response # Null THEN s.response
    ELSE IF xhr.response # Null THEN xhr.response
    ELSE IF xhr.responseText # Throws /\ xhr.responseText # Null
         THEN xhr.responseText
    ELSE IF xhr.responseXML # Throws /\ xhr.responseXML # Null
         THEN xhr.responseXML
    ELSE Null

EvalThrows_never(r) == FALSE

\* eval("json=" + text) succeeds on a JavaScript expression: "null" for a
\* null response, a literal such as "[1]"; it throws on broken text
EvalThrows(r) == r # Null /\ r.body # "[1]"
EvalJSON(r) == IF r = Null THEN Null ELSE [kind |-> "object", body |-> r.body]

_parseXML(r, mime) == [kind |-> "document", body |-> r.body]

Tag(kind, r) == [kind |-> kind, body |-> r.body]

\* the fields of the loader when _generateTag returns
Materialized(s) ==
    CASE itemType = IMAGE ->
            [s EXCEPT !.tagOnload = TRUE,
                      !.rawResponse = s.response,
                      !.response = [kind |-> "img", body |-> "src"]]
      [] itemType = JAVASCRIPT ->
            [s EXCEPT !.rawResponse = s.response,
                      !.response = Tag("script", s.response)]
      [] itemType = CSS ->
            [s EXCEPT !.rawResponse = s.response,
                      !.response = Tag("style", s.response)]
      [] itemType = XML ->
            [s EXCEPT !.response = _parseXML(s.response, "text/xml")]
      [] itemType = SVG ->
            [s EXCEPT !.rawResponse = s.response,
                      !.response =
                          Tag("svg", _parseXML(s.response, "image/svg+xml"))]
      [] itemType = JSON ->
            IF EvalThrows(s.response) THEN s
            ELSE [s EXCEPT !.rawResponse = s.response,
                           !.response = EvalJSON(s.response)]
      [] OTHER -> s

_generateTag_imageComplete(s) == [s |-> Materialized(s), ret |-> TRUE]

_generateTag_neverComplete(s) == [s |-> Materialized(s), ret |-> FALSE]

\* the loader and the Boolean the method returns: only an IMAGE is not yet
\* complete
_generateTag(s) ==
    [s |-> Materialized(s), ret |-> IF itemType = IMAGE THEN FALSE ELSE TRUE]

_handleLoad_unguarded(s, xhr) ==
    LET a == [s EXCEPT !.loaded = TRUE]
    IN  IF ~_checkError(xhr.status) THEN _handleError(a)
        ELSE LET b == [a EXCEPT !.response = _getResponse(a, xhr)]
                 c == _clean(b)
                 g == _generateTag(c)
             IN  IF c.thrown THEN c
                 ELSE IF g.ret THEN _sendComplete(g.s)
                 ELSE g.s

_handleLoad_flagless(s, xhr) ==
    IF s.loaded THEN s
    ELSE IF ~_checkError(xhr.status) THEN _handleError(s)
    ELSE LET b == [s EXCEPT !.response = _getResponse(s, xhr)]
             c == _clean(b)
             g == _generateTag(c)
         IN  IF c.thrown THEN c
             ELSE IF g.ret THEN _sendComplete(g.s)
             ELSE g.s

_handleLoad_lateFlag(s, xhr) ==
    IF s.loaded THEN s
    ELSE IF ~_checkError(xhr.status) THEN _handleError(s)
    ELSE LET a == [s EXCEPT !.loaded = TRUE]
             b == [a EXCEPT !.response = _getResponse(a, xhr)]
             c == _clean(b)
             g == _generateTag(c)
         IN  IF c.thrown THEN c
             ELSE IF g.ret THEN _sendComplete(g.s)
             ELSE g.s

_handleLoad(s, xhr) ==
    IF s.loaded THEN s
    ELSE LET a == [s EXCEPT !.loaded = TRUE]
         IN  IF ~_checkError(xhr.status) THEN _handleError(a)
             ELSE LET b == [a EXCEPT !.response = _getResponse(a, xhr)]
                      c == _clean(b)
                      g == _generateTag(c)
                  IN  IF c.thrown THEN c
                      ELSE IF g.ret THEN _sendComplete(g.s)
                      ELSE g.s

_handleReadyStateChange(s, xhr, readyState) ==
    IF readyState = DONE THEN _handleLoad(s, xhr) ELSE s

_handleTagReady(s) == _sendComplete(s)

\* _request.abort(): the transport calls the abort handler, if one is bound,
\* before abort() returns
abort(s) == IF "onabort" \in s.hooks THEN _handleAbort(s) ELSE s

cancel_abortFirst(s) ==
    LET a == IF "onabort" \in s.hooks THEN _handleAbort(s) ELSE s
    IN  _clean([a EXCEPT !.canceled = TRUE])

cancel_unflagged(s) == [abort(s) EXCEPT !.canceled = TRUE]

\* canceled is set before _clean, and abort() is reached only if _clean
\* returns
cancel(s) ==
    LET a == _clean([s EXCEPT !.canceled = TRUE])
    IN  IF a.thrown THEN a ELSE abort(a)

\* id is the handle setTimeout returns, sendThrows whether send() throws
load(s, id, sendThrows) ==
    IF request = "null" THEN _handleError(s)
    ELSE LET a == [s EXCEPT !.hooks = @ \cup {"onloadstart", "onprogress",
                                "onabort", "onerror", "ontimeout"}]
             b == IF xhrLevel = 1
                  THEN [a EXCEPT !.loadTimeout = id, !.timers = @ \cup {id}]
                  ELSE a
             c == [b EXCEPT !.hooks = @ \cup {"onload", "onreadystatechange"}]
         IN  IF sendThrows THEN _sendError(c) ELSE c

\* -------------------------------------------------------------------- states
\* After construction: _createXHR either stored a request and detected its
\* level, or failed and left _request null and _xhrLevel at its default 1.
Init ==
    /\ request \in {"xhr", "null"}
    /\ xhrLevel \in {1, 2}
    /\ request = "null" => xhrLevel = 1
    /\ itemType \in Types
    /\ canceled = FALSE
    /\ loaded = FALSE
    /\ progress = <<0, 1>>
    /\ response = Null
    /\ rawResponse = Null
    /\ hooks = {}
    /\ loadTimeout = NoTimer
    /\ timers = {}
    /\ tagOnload = FALSE
    /\ sent = [complete |-> 0, error |-> 0]
    /\ out = Silent
    /\ thrown = FALSE
    /\ released = FALSE
    /\ loadCalls = 0
    /\ events = 0
    /\ due = FALSE
    /\ tagDue = FALSE
    /\ firstStatus = NoStatus
    /\ payload = Null
    /\ fired = NoEvent
    /\ op = "init"

\* the caller calls load(); send() throws or not, and a transport that
\* accepted the request either owes a terminal event or stalls
Load ==
    /\ loadCalls < MaxLoads
    /\ \E sendThrows \in BOOLEAN, stalls \in BOOLEAN :
          /\ request = "null" => (~sendThrows /\ stalls)
          /\ sendThrows => stalls
          /\ Becomes(load(Self, loadCalls + 1, sendThrows))
          /\ due' = IF sendThrows \/ request = "null" THEN due
                    ELSE (due \/ ~stalls)
    /\ loadCalls' = loadCalls + 1
    /\ op' = "load()"
    /\ fired' = NoEvent
    /\ UNCHANGED <<request, xhrLevel, itemType, events, tagDue, firstStatus,
                   payload>>

\* the caller calls cancel(); an aborted transport owes nothing more
Cancel ==
    /\ Becomes(cancel(Self))
    /\ due' = IF request = "null" THEN due ELSE FALSE
    /\ op' = "cancel"
    /\ fired' = NoEvent
    /\ UNCHANGED <<request, xhrLevel, itemType, loadCalls, events, tagDue,
                   firstStatus, payload>>

\* The transport fires an event.  A handler runs only if its hook is bound;
\* terminal events that the transport owes are not subject to the cap.
Fires(hook, terminal, result, name) ==
    /\ request = "xhr"
    /\ loadCalls > 0
    /\ events < MaxEvents \/ (due /\ terminal)
    /\ Becomes(IF hook \in hooks THEN result ELSE Self)
    /\ op' = IF hook \in hooks THEN name ELSE "ignored"
    /\ events' = IF events < MaxEvents THEN events + 1 ELSE events
    /\ due' = IF terminal THEN FALSE ELSE due
    /\ tagDue' = (tagDue \/ (tagOnload' /\ ~tagOnload))
    /\ UNCHANGED <<request, xhrLevel, itemType, loadCalls>>

OnLoadStart ==
    /\ Fires("onloadstart", FALSE, _handleLoadStart(Self), "loadstart")
    /\ fired' = NoEvent
    /\ UNCHANGED <<firstStatus, payload>>

\* The event is read only by a handler that is bound; for a delivery that
\* finds none, one event stands for all of them.
Received(hook) ==
    IF hook \in hooks
    THEN [loaded : 0..MaxBytes, total : 0..MaxBytes]
    ELSE {[loaded |-> 0, total |-> 0]}

OnProgress ==
    \E e \in Received("onprogress") :
        /\ Fires("onprogress", FALSE, _handleProgress(Self, e), "progress")
        /\ fired' = IF "onprogress" \in hooks THEN e ELSE NoEvent
        /\ UNCHANGED <<firstStatus, payload>>

OnAbort ==
    /\ Fires("onabort", TRUE, _handleAbort(Self), "abort")
    /\ fired' = NoEvent
    /\ UNCHANGED <<firstStatus, payload>>

OnError ==
    /\ Fires("onerror", TRUE, _handleError(Self), "error")
    /\ fired' = NoEvent
    /\ UNCHANGED <<firstStatus, payload>>

\* only a level-2 transport has a native timeout event
OnTimeout ==
    /\ xhrLevel = 2
    /\ Fires("ontimeout", TRUE, _handleTimeout(Self), "timeout")
    /\ fired' = NoEvent
    /\ UNCHANGED <<firstStatus, payload>>

Honored(hook) == hook \in hooks /\ ~loaded

\* The request is read only by a completion handler that is honored; for any
\* other delivery one request stands for all of them.
Delivered(hook, honored) ==
    IF honored THEN XHRs
    ELSE {[status |-> 200, response |-> Data("{not valid json"),
           responseText |-> Null, responseXML |-> Null]}

OnLoad ==
    \E xhr \in Delivered("onload", Honored("onload")) :
        /\ Fires("onload", TRUE, _handleLoad(Self, xhr), "load")
        /\ firstStatus' = IF Honored("onload") THEN xhr.status ELSE firstStatus
        /\ payload' = IF Honored("onload") /\ _checkError(xhr.status)
                      THEN _getResponse(Self, xhr) ELSE payload
        /\ fired' = NoEvent

OnReadyStateChange ==
    \E readyState \in ReadyStates :
    \E xhr \in Delivered("onreadystatechange",
                         Honored("onreadystatechange") /\ readyState = DONE) :
        /\ Fires("onreadystatechange", readyState = DONE,
                 _handleReadyStateChange(Self, xhr, readyState),
                 "readystatechange")
        /\ firstStatus' = IF Honored("onreadystatechange") /\ readyState = DONE
                          THEN xhr.status ELSE firstStatus
        /\ payload' = IF /\ Honored("onreadystatechange")
                         /\ readyState = DONE
                         /\ _checkError(xhr.status)
                      THEN _getResponse(Self, xhr) ELSE payload
        /\ fired' = NoEvent

\* a pending manual timer fires (once) and calls _handleTimeout
TimerFires ==
    \E id \in timers :
        /\ Becomes(_handleTimeout([Self EXCEPT !.timers = @ \ {id}]))
        /\ op' = "timer"
        /\ fired' = NoEvent
        /\ UNCHANGED <<request, xhrLevel, itemType, loadCalls, events, due,
                       tagDue, firstStatus, payload>>

\* the placeholder tag fires onload: the one it owes after "tag.src = ..."
\* or a later one
TagReady ==
    /\ tagOnload
    /\ tagDue \/ events < MaxEvents
    /\ Becomes(_handleTagReady(Self))
    /\ op' = "tagReady"
    /\ events' = IF tagDue THEN events ELSE events + 1
    /\ tagDue' = FALSE
    /\ fired' = NoEvent
    /\ UNCHANGED <<request, xhrLevel, itemType, loadCalls, due, firstStatus,
                   payload>>

Next ==
    \/ Load
    \/ Cancel
    \/ OnLoadStart
    \/ OnProgress
    \/ OnAbort
    \/ OnError
    \/ OnTimeout
    \/ OnLoad
    \/ OnReadyStateChange
    \/ TimerFires
    \/ TagReady

Spec == Init /\ [][Next]_vars

\* The manual timer is a browser timer and fires if left pending; a transport
\* that owes a terminal event delivers one; a placeholder whose src was
\* assigned delivers its onload.
Owed ==
    /\ due
    /\ due' = FALSE
    /\ OnLoad \/ OnReadyStateChange \/ OnAbort \/ OnError \/ OnTimeout

FairSpec ==
    /\ Spec
    /\ WF_vars(TimerFires)
    /\ WF_vars(Owed)
    /\ WF_vars(tagDue /\ TagReady)

\* ------------------------------------------------------------------- claims
Handlers == {"loadstart", "progress", "abort", "error", "timeout", "load",
             "readystatechange", "timer", "tagReady"}
Terminal == {"complete", "error"}
BothSignals == {"load", "readystatechange"}

\* C1: once cancel() has been called, no step delivers a load-start,
\* progress, complete or error notification to the caller.
C1_NoNotificationAfterCancel ==
    [][canceled => (out' = Silent /\ sent' = sent)]_vars

\* a handler ran on a canceled loader whose fetch had succeeded
C1_Witness ==
    /\ canceled
    /\ op \in Handlers
    /\ loaded
    /\ sent.complete = 0

\* C2: load() on a loader without a transport delivers an error notification
\* and does not throw.
C2_NullRequestLoadNotifies ==
    (request = "null" /\ op = "load()") => (out.type = "error" /\ ~thrown)

\* C3: one load() on a loader that is never canceled delivers at most one
\* error notification.
C3_AtMostOneError ==
    (loadCalls = 1 /\ ~canceled) => sent.error <= 1

\* C4: once an error notification has been delivered, no later step delivers
\* a complete notification.
C4_NoCompleteAfterError ==
    [][sent.error > 0 => sent'.complete = sent.complete]_vars

\* C5: a successful non-IMAGE load never delivers more than one complete
\* notification, and delivers exactly one once its first completion signal
\* has been honored, however many completion signals fire.
C5_OneCompletePerLoad ==
    itemType # IMAGE =>
        /\ sent.complete <= 1
        /\ (loaded /\ _checkError(firstStatus) /\ ~canceled) => sent.complete = 1

\* a completion handler ran again after the load had completed
C5_Witness ==
    /\ itemType # IMAGE
    /\ loaded
    /\ op \in BothSignals
    /\ out = Silent
    /\ ~canceled
    /\ sent.complete = 1

\* C6: a loader delivers at most one complete notification.
C6_CompleteAtMostOnce == sent.complete <= 1

\* C7: when the first honored completion signal carries status 404, an error
\* notification is delivered (unless canceled) and no complete notification
\* is ever delivered.
C7_NotFoundNeverCompletes ==
    firstStatus = NOTFOUND =>
        /\ sent.complete = 0
        /\ ~canceled => sent.error >= 1

\* a completion handler ran again after the 404
C7_Witness ==
    /\ firstStatus = NOTFOUND
    /\ op \in BothSignals
    /\ out = Silent
    /\ ~canceled
    /\ sent.error = 1

\* C8: after load(), unless canceled, a terminal notification is eventually
\* delivered, and never more than one.
C8_OneTerminalNotification ==
    /\ (loadCalls > 0) ~> (canceled \/ sent.complete + sent.error >= 1)
    /\ [](~canceled => sent.complete + sent.error <= 1)

\* C9: an IMAGE load delivers its complete notification only in the step in
\* which the placeholder tag fires onload, never in the step that handles
\* the successful fetch.
C9_ImageCompletesOnTagReady ==
    [][(itemType = IMAGE /\ (out'.type = "complete" \/ sent'.complete # sent.complete))
          => op' = "tagReady"]_vars

\* the fetch of an IMAGE has just succeeded and nothing was delivered
C9_Witness ==
    /\ itemType = IMAGE
    /\ op \in BothSignals
    /\ loaded
    /\ _checkError(firstStatus)
    /\ tagOnload
    /\ ~canceled
    /\ out = Silent
    /\ sent.complete = 0

\* C10: right after a step that delivers a complete or error notification,
\* and right after cancel(), no hook is bound and no manual timer is pending.
C10_ReleasedOnTerminalPath ==
    (out.type \in Terminal \/ op = "cancel") => (hooks = {} /\ timers = {})

\* the first completion signal was honored with a success status, so the
\* response was extracted and materialized
Fetched == loaded /\ firstStatus \notin {NOTFOUND, NOTLOADED}
Broken == Data("{not valid json")

\* C11: for every type whose materialization replaces the response (IMAGE,
\* JAVASCRIPT, CSS, XML, SVG, JSON that parses), the raw result is the
\* payload extracted from the transport.
C11_RawKeepsPayload ==
    (/\ Fetched
     /\ \/ itemType \in {IMAGE, JAVASCRIPT, CSS, XML, SVG}
        \/ itemType = JSON /\ payload # Broken)
        => rawResponse = payload

BrokenJSON == itemType = JSON /\ Fetched /\ payload = Broken /\ ~canceled

\* C12 as stated: a JSON load whose body does not parse completes (the step
\* that honors the signal delivers complete, once), and the result and the
\* raw result are both the unparsed text.
C12_BrokenJSONBothResults ==
    /\ [](BrokenJSON =>
            /\ sent.complete = 1
            /\ response = payload
            /\ rawResponse = payload)
    /\ [][(~loaded /\ BrokenJSON') => out'.type = "complete"]_vars

\* C12 amended: a JSON load whose body does not parse completes (the step
\* that honors the signal delivers complete, once); the result is the
\* unparsed text and the raw result stays null.
C12_BrokenJSONResultOnly ==
    /\ [](BrokenJSON =>
            /\ sent.complete = 1
            /\ response = payload
            /\ rawResponse = Null)
    /\ [][(~loaded /\ BrokenJSON') => out'.type = "complete"]_vars

C12_Witness == BrokenJSON /\ sent.complete = 1 /\ response = Broken

TextOK == itemType = TEXT /\ loaded /\ firstStatus = 200 /\ ~canceled

\* C13 as stated: a TEXT load completed with status 200 delivers exactly one
\* complete notification, and the raw result and the result both equal the
\* payload.
C13_TextBothResults ==
    TextOK =>
        /\ sent.complete = 1
        /\ rawResponse = payload
        /\ response = payload

\* C13 amended: a TEXT load completed with status 200 delivers exactly one
\* complete notification, the result equals the payload and the raw result
\* is null.
C13_TextResultOnly ==
    TextOK =>
        /\ sent.complete = 1
        /\ rawResponse = Null
        /\ response = payload

C13_Witness == TextOK /\ payload # Null /\ sent.complete = 1

\* C14 as stated: while no complete notification has been delivered, the
\* result and the raw result are null.
C14_NullBeforeComplete ==
    sent.complete = 0 => (response = Null /\ rawResponse = Null)

\* C14 amended: on a loader that is not canceled and whose type is not IMAGE,
\* while no complete notification has been delivered, the result and the raw
\* result are null.
C14_NullBeforeCompleteNonImage ==
    (sent.complete = 0 /\ itemType # IMAGE /\ ~canceled)
        => (response = Null /\ rawResponse = Null)

\* a completion signal was honored and failed: still nothing to return
C14_Witness ==
    /\ sent.complete = 0
    /\ itemType # IMAGE
    /\ ~canceled
    /\ loaded
    /\ response = Null

\* C15: with a transport, cancel() delivers nothing and does not throw, and a
\* second cancel() right after it changes no field of the loader.
C15_CancelIdempotent ==
    /\ []((op = "cancel" /\ request = "xhr") => (out = Silent /\ ~thrown))
    /\ [][(op = "cancel" /\ op' = "cancel" /\ request = "xhr") =>
            UNCHANGED <<canceled, loaded, progress, response, rawResponse,
                        hooks, loadTimeout, timers, tagOnload, sent, out,
                        thrown>>]_vars

\* cancel() after the load had completed
C15_Witness ==
    /\ op = "cancel"
    /\ request = "xhr"
    /\ canceled
    /\ loaded
    /\ sent.complete = 1

Unreliable(e) == e.loaded > 0 /\ e.total = 0

\* C16: a progress event with loaded > 0 and total = 0 is not forwarded and
\* leaves progress unchanged; any other pair received while not canceled is
\* forwarded with the same loaded and total.
C16_ProgressForwarding ==
    /\ [](op = "progress" =>
            IF Unreliable(fired) THEN out = Silent
            ELSE canceled \/ out = Notification("progress", fired.loaded,
                                                fired.total))
    /\ [](out.type = "progress" => ~Unreliable(out))
    /\ [][(op' = "progress" /\ Unreliable(fired')) => progress' = progress]_vars

\* an unreliable pair arrived after progress had already moved
C16_Witness ==
    /\ op = "progress"
    /\ Unreliable(fired)
    /\ ~canceled
    /\ progress # <<0, 1>>
    /\ out = Silent

\* C17: progress lies in [0,1].
C17_ProgressInUnitInterval ==
    0 <= progress[1] /\ progress[1] <= progress[2]

\* C18: the first honored completion signal is classified by its status
\* alone: 404 and 0 store no result and deliver an error, any other status
\* stores the materialized payload and delivers complete unless IMAGE.
C18_ClassifiedByStatus ==
    loaded =>
        IF firstStatus \in {NOTFOUND, NOTLOADED}
        THEN /\ response = Null
             /\ rawResponse = Null
             /\ sent.complete = 0
             /\ ~canceled => sent.error >= 1
        ELSE LET m == Materialized([Self EXCEPT !.response = payload,
                                                !.rawResponse = Null])
             IN  /\ response = m.response
                 /\ rawResponse = m.rawResponse
                 /\ (~canceled /\ itemType # IMAGE) => sent.complete = 1

C18_Witness ==
    /\ loaded
    /\ firstStatus = 500
    /\ ~canceled
    /\ response # Null
    /\ sent.complete = 1

\* C19: a result or a raw result that is set implies loaded.
C19_ResponseImpliesLoaded ==
    (response # Null \/ rawResponse # Null) => loaded

C19_Witness == response # Null /\ rawResponse # Null /\ loaded

\* C20 as stated: no step delivers a progress notification once loaded is
\* true.
C20_NoProgressAfterLoaded ==
    [][loaded => out'.type # "progress"]_vars

\* C20 amended: on a loader whose load() is called once, no step delivers a
\* progress notification once loaded is true.
C20_NoProgressAfterLoadedOneLoad ==
    [][(loaded /\ loadCalls' = 1) => out'.type # "progress"]_vars

\* a transport event arrived after the load had completed and found no handler
C20_Witness ==
    /\ loaded
    /\ loadCalls = 1
    /\ ~canceled
    /\ op = "ignored"
    /\ sent.complete = 1

\* C21: with a transport, the release of its resources (_clean) is performed
\* exactly once: the step that delivers a terminal notification has performed
\* it unless the load had completed before, and once the loader is canceled
\* or loaded no later step performs it again.
C21_ReleasedExactlyOnce ==
    /\ []((request = "xhr" /\ out.type \in Terminal) => (released \/ loaded))
    /\ [][(request = "xhr" /\ (canceled \/ loaded)) => ~released']_vars

\* C22: cancel() leaves the loader canceled and released, and the abort it
\* requests on the transport delivers no error notification.
C22_AbortInCancelSilent ==
    [][op' = "cancel" =>
        /\ canceled'
        /\ request = "xhr" => released'
        /\ out'.type # "error"
        /\ sent'.error = sent.error]_vars

\* cancel() while the request was in flight
C22_Witness ==
    /\ op = "cancel"
    /\ request = "xhr"
    /\ released
    /\ loadCalls = 1
    /\ ~loaded
    /\ sent = [complete |-> 0, error |-> 0]

Releasing == {"loadstart", "abort", "error", "timeout", "timer", "cancel"}

C24_CanceledHoldsNothing ==
    canceled => (hooks = {} /\ timers = {})

\* C25: once the first honored completion signal carried status 404 or 0,
\* loaded is true and the result and the raw result are null; loaded never
\* returns to false.
C25_FailedLoadStaysLoaded ==
    /\ [](firstStatus \in {NOTFOUND, NOTLOADED} =>
            (loaded /\ response = Null /\ rawResponse = Null))
    /\ [][loaded => loaded']_vars

\* after the failure load() was called again and a later completion signal
\* reached the handler
C25_Witness ==
    /\ firstStatus = NOTLOADED
    /\ loaded
    /\ loadCalls = 2
    /\ op \in BothSignals
    /\ response = Null
    /\ rawResponse = Null

====
